---- MODULE Spec2Model ----
(***************************************************************************)
(* Adaptive mesh refinement driven by a curl-mismatch error estimator      *)
(* (src/src/ErrorEstimator.py) and the two scripts beside it.              *)
(*                                                                         *)
(* Numbers: a real number is kept as a record, an exact fraction n / d     *)
(* with d > 0 (k = "num") or one of the values inf and nan that numpy      *)
(* produces when the relative difference divides by a zero field.          *)
(***************************************************************************)
EXTENDS Integers, Sequences, FiniteSets, TLC

(***************************************************************************)
(* Bounds of the model.                                                    *)
(***************************************************************************)
\* longest search area handed to estimate_error on its own
MaxArea == 3
\* largest error value of a sample point
MaxErr == 2
\* most faces (edges) of one direction in the array-splitting check
MaxCount == 2
\* total number of loop iterations one chain of calls may ask for
MaxTotal == 5
\* number of calls in a chain: the first call and the calls that resume it
MaxCalls == 2

(***************************************************************************)
(* Generic helpers.                                                        *)
(***************************************************************************)
Abs(x) == IF x < 0 THEN -x ELSE x

Range(s) == {s[k] : k \in 1..Len(s)}

\* int(np.ceil(num/den * n)) for a fraction num/den >= 0
CeilMul(num, den, n) == ((num * n) + den - 1) \div den

\* all orderings of a finite set, as sequences
RECURSIVE Orderings(_)
Orderings(S) ==
    IF S = {} THEN {<<>>}
    ELSE UNION {{<<x>> \o t : t \in Orderings(S \ {x})} : x \in S}


\* a Python slice a[lo:hi] of a sequence, 0-based bounds clamped to the length
PySlice(a, lo, hi) ==
    LET l == IF lo > Len(a) THEN Len(a) ELSE IF lo < 0 THEN 0 ELSE lo
        h == IF hi > Len(a) THEN Len(a) ELSE hi
    IN  IF h <= l THEN <<>> ELSE [k \in 1..(h - l) |-> a[l + k]]

(***************************************************************************)
(* estimate_error: the selection of the cells to refine.                   *)
(***************************************************************************)
\* np.argpartition(a, kth) with 0-based kth already normalised to 0..n-1:
\* every ordering of the indices that puts an element v in place kth with
\* nothing larger before it and nothing smaller after it.  Which of them
\* numpy returns is fixed by its selection routine, not by its contract.
ArgPartitions(a, kth) ==
    LET I == 1..Len(a)
        Lows(v) == {L \in SUBSET (I \ {v}) :
                       /\ Cardinality(L) = kth
                       /\ \A x \in L : a[x] <= a[v]
                       /\ \A y \in I \ (L \cup {v}) : a[y] >= a[v]}
    IN  UNION {UNION {{lo \o <<v>> \o hi :
                          lo \in Orderings(L),
                          hi \in Orderings(I \ (L \cup {v}))} :
                      L \in Lows(v)} :
               v \in I}

\* kth = -n_refine_cells as numpy reads it: a negative index counts from the
\* end, -0 is 0; anything outside 0..N-1 raises ValueError
KthOf(n_refine_cells, N) ==
    IF n_refine_cells = 0 THEN 0 ELSE N - n_refine_cells

KthValid(n_refine_cells, N) ==
    KthOf(n_refine_cells, N) >= 0 /\ KthOf(n_refine_cells, N) < N

\* idx[-n:] on the index array: the last n entries, and for n = 0 the slice
\* [-0:] = [0:], which is the whole array
LastSlice(idx, n) ==
    IF n = 0 THEN idx ELSE PySlice(idx, Len(idx) - n, Len(idx))

\* search_area[idx]: fancy indexing keeps the order of idx
Take(search_area, idx) == [k \in 1..Len(idx) |-> search_area[idx[k]]]

\* the results estimate_error may return for a search area with the given
\* per-point errors and refine_percentage = pnum/pden; {} when it raises
EstimateErrorResults(search_area, cell_errors, pnum, pden) ==
    LET N == Len(search_area)
        n_refine_cells == CeilMul(pnum, pden, N)
    IN  IF ~KthValid(n_refine_cells, N) THEN {}
        ELSE {Take(search_area, LastSlice(f, n_refine_cells)) :
                 f \in ArgPartitions(cell_errors, KthOf(n_refine_cells, N))}

(***************************************************************************)
(* Geometry and meshing helpers (module Meshing, called by the engine).    *)
(* A binary tree along x stands for the octree: the domain is NCoarse      *)
(* coarse cells of width 2 * cell_width, each either whole or split into   *)
(* two children of width cell_width.  A point is a number p: p \div 3 is   *)
(* its coarse cell, p % 3 = 0 the centre of the whole cell and 1, 2 the    *)
(* centres of its children.  The cells form one row in the plane y = 0.    *)
(***************************************************************************)
\* number of coarse cells of the domain
NCoarse == 7

Points == 0..(3 * NCoarse - 1)

CoarseOf(p) == p \div 3

PX(p) == 4 * CoarseOf(p) + (IF p % 3 = 0 THEN 2 ELSE IF p % 3 = 1 THEN 1 ELSE 3)

\* depth of a cell centre: the second coarse column lies above the surface
PZ(p) == IF CoarseOf(p) = 1 THEN 1 ELSE -1

\* create_octree_mesh(domain, cell_width, feature, 'surface'): a fresh,
\* unfinalized mesh with a first refinement pass at the feature
create_octree_mesh(dom, cw, feature) ==
    [domain |-> dom, cell_width |-> cw,
     ops |-> <<[op |-> "refine", pts |-> feature]>>]

\* refine_at_locations(mesh, points): one more refinement request
refine_at_locations(m, points) ==
    [m EXCEPT !.ops = Append(@, [op |-> "refine", pts |-> points])]

\* mesh.finalize()
finalize(m) == [m EXCEPT !.ops = Append(@, [op |-> "finalize", pts |-> <<>>])]

\* position of the first finalize among the operations of a mesh, 0 if none
FirstFinalize(m) ==
    LET fin == {k \in 1..Len(m.ops) : m.ops[k].op = "finalize"}
    IN  IF fin = {} THEN 0 ELSE CHOOSE k \in fin : \A j \in fin : k <= j

\* the coarse cells split by the requests made before the mesh was finalized
SplitCells(m) ==
    LET upto == IF FirstFinalize(m) = 0 THEN Len(m.ops) ELSE FirstFinalize(m)
    IN  UNION {{CoarseOf(x) : x \in Range(m.ops[k].pts)} :
                  k \in {q \in 1..upto : m.ops[q].op = "refine"}}

\* mesh.cell_centers: the cells of the mesh in mesh order
CellCenters(m) ==
    LET split == SplitCells(m)
        IsCell(p) == IF CoarseOf(p) \in split THEN p % 3 # 0 ELSE p % 3 = 0
    IN  SelectSeq([k \in 1..(3 * NCoarse) |-> k - 1], IsCell)

\* surface2ind_topo(mesh, surface): the cells whose centre lies below the
\* (flat) surface
surface2ind_topo(m, surf) ==
    [k \in 1..Len(CellCenters(m)) |-> PZ(CellCenters(m)[k]) < surf]

\* the sub-sequence of a sequence kept by a boolean mask of the same length
RECURSIVE Masked(_, _)
Masked(a, mask) ==
    IF Len(a) = 0 THEN <<>>
    ELSE (IF mask[1] THEN <<a[1]>> ELSE <<>>) \o Masked(Tail(a), Tail(mask))

\* a box rotated about an axis through its centre by quarter turns: the two
\* half extents across the axis change places on an odd number of turns
RotatedBox(box, ax, quarter_turns) ==
    IF quarter_turns % 2 = 0 THEN box
    ELSE IF ax = "x" THEN [box EXCEPT !.hy = box.hz, !.hz = box.hy]
    ELSE IF ax = "y" THEN [box EXCEPT !.hx = box.hz, !.hz = box.hx]
    ELSE [box EXCEPT !.hx = box.hy, !.hy = box.hx]

\* get_ind_block(mesh, ind_active, coordinates, axis, degrees_rad): mask over
\* the active cells, true where the centre (x, 0, z) is inside the box
get_ind_block(m, ind_active, box, ax, degrees_rad) ==
    LET b == RotatedBox(box, ax, degrees_rad)
        act == Masked(CellCenters(m), ind_active)
    IN  [k \in 1..Len(act) |->
            /\ Abs(PX(act[k]) - b.cx) <= b.hx
            /\ Abs(0 - b.cy) <= b.hy
            /\ Abs(PZ(act[k]) - b.cz) <= b.hz]

\* get_ind_block(mesh, ind_active, coordinates): axis and rotation left to
\* their defaults
DefaultAxis == "x"

DefaultRotation == 0

get_ind_block_default(m, ind_active, box) ==
    get_ind_block(m, ind_active, box, DefaultAxis, DefaultRotation)

\* get_ind_sphere(mesh, ind_active, coordinates, radius): mask over the active
\* cells, true where the centre is within radius of the sphere's centre
get_ind_sphere(m, ind_active, centre, rad) ==
    LET act == Masked(CellCenters(m), ind_active)
    IN  [k \in 1..Len(act) |->
            (PX(act[k]) - centre.cx) * (PX(act[k]) - centre.cx)
              + (0 - centre.cy) * (0 - centre.cy)
              + (PZ(act[k]) - centre.cz) * (PZ(act[k]) - centre.cz) <= rad * rad]

\* search_area_object / _receivers / _sources / _landscape: the cell centres
\* of the mesh within factor cell widths of a point of the feature
search_area(m, feature, factor) ==
    LET Near(p) == \E f \in Range(feature) :
                       Abs(PX(p) - PX(f)) <= factor * m.cell_width
    IN  SelectSeq(CellCenters(m), Near)

(***************************************************************************)
(* The fixed inputs of a run (what the caller passes on every call).       *)
(***************************************************************************)
domain == <<0, 4 * NCoarse>>
cell_width == 2
\* height of the flat surface
surface == 0
par_background == 1
par_object == 100
par_inactive == 100000000
radius == 1
objct == <<10, 11>>
receiver_locations == <<20>>
source_locations == <<1>>
landscape == <<12>>
\* box centre and half extents for a block, centre for a sphere
coordinates == [cx |-> 14, cy |-> 0, cz |-> -1, hx |-> 4, hy |-> 2, hz |-> 1]
\* resistivity_function of iteratornonobject: a layered model along x
resistivity_function(cells) ==
    [k \in 1..Len(cells) |-> IF PX(cells[k]) < 16 THEN 1 ELSE 10]
\* default search-area factors of the two schemes
FactorFeature(f) == 2
FactorReceiver(f) == IF f = "iterator" THEN 3 ELSE 2
FactorSource(f) == IF f = "iterator" THEN 3 ELSE 2
\* the feature the mesh is created around: the object or the landscape
Feature(f) == IF f = "iterator" THEN objct ELSE landscape

(***************************************************************************)
(* Numbers of the convergence test.                                        *)
(***************************************************************************)
RECURSIVE GCD(_, _)
GCD(a, b) == IF b = 0 THEN a ELSE GCD(b, a % b)

Frac(n, d) == [k |-> "num", n |-> n \div GCD(n, d), d |-> d \div GCD(n, d)]
Inf == [k |-> "inf", n |-> 0, d |-> 1]
NaN == [k |-> "nan", n |-> 0, d |-> 1]

\* x > 0.01 and x < 0.01 as floating point decides them: every comparison
\* with nan is false
GreaterThanThreshold(x) ==
    x.k = "inf" \/ (x.k = "num" /\ 100 * x.n > x.d)

LessThanThreshold(x) == x.k = "num" /\ 100 * x.n < x.d

\* x + y
AddNum(x, y) ==
    IF x.k = "nan" \/ y.k = "nan" THEN NaN
    ELSE IF x.k = "inf" \/ y.k = "inf" THEN Inf
    ELSE Frac(x.n * y.d + y.n * x.d, x.d * y.d)

\* sum(values) / len(values) for a non-empty list
RECURSIVE SumNum(_)
SumNum(values) ==
    IF Len(values) = 0 THEN Frac(0, 1)
    ELSE AddNum(values[1], SumNum(Tail(values)))

Average(values) ==
    LET t == SumNum(values)
    IN  IF t.k = "num" THEN Frac(t.n, t.d * Len(values)) ELSE t

\* np.array(av_diff_list): a list of [index, difference] rows becomes a
\* two-dimensional array, the empty list a one-dimensional array of length 0
np_array(rows) == [ndim |-> IF Len(rows) = 0 THEN 1 ELSE 2, rows |-> rows]

\* the default diff_list = np.array([[0, 0]])
DefaultDiffList == np_array(<<<<0, Frac(0, 1)>>>>)

(***************************************************************************)
(* The forward solves and the interpolators built from them.  The solver   *)
(* is a function of the mesh, the model map and the model; its value is    *)
(* not known to the engine, so a solution is one field level e out of      *)
(* FieldVals, fixed the first time a problem is solved (variable solved).  *)
(***************************************************************************)
FieldVals == {0, 100, 101, 250}

\* the interpolators given a value before the loop
NoFieldBound == [bound |-> TRUE, e |-> 0, on |-> <<>>]

\* ef_x, ef_y, ef_z before their first assignment, and Ex = None
NoField == [bound |-> FALSE, e |-> 0, on |-> <<>>]

\* EF_x_inter, EF_y_inter, EF_z_inter: built from the edges of the mesh and
\* the electric-field solution
EFInterpolators(m, e) == [bound |-> TRUE, e |-> e, on |-> CellCenters(m)]

\* curl_x_inter, ...: built from the faces of the mesh and Sm - i*omega*b
CurlInterpolators(m, e) == [bound |-> TRUE, e |-> e \div 10, on |-> CellCenters(m)]

\* ef_interpolator(cell), followed through one component of the field
EFAt(ef, cell) == ef.e

\* the curl interpolators at a point: a flux that falls off along x
CurlAt(curl, cell) == curl.e - PX(cell)

\* the curl rebuilt from the Jacobian of the interpolated field: the field is
\* the same at every point, so every derivative vanishes
JacobianCurlAt(ef, cell) == 0 * EFAt(ef, cell)

\* compute_cell_error: norm of the difference of the two curls
compute_cell_error(cell, curl, ef) == Abs(CurlAt(curl, cell) - JacobianCurlAt(ef, cell))

\* one entry of relative_difference_Efield:
\* norm(abs((ef_old(cell) - ef(cell)) / ef_old(cell)))
RelativeDifference(ef_old, ef, cell) ==
    IF EFAt(ef_old, cell) = 0
    THEN (IF EFAt(ef, cell) = 0 THEN NaN ELSE Inf)
    ELSE Frac(Abs(EFAt(ef_old, cell) - EFAt(ef, cell)), Abs(EFAt(ef_old, cell)))

\* the metric with the baseline already replaced by the current field
AverageRelativeDifferenceSelf(ef_old, ef, a_obj, a_rec, a_src) ==
    LET cells == a_obj \o a_rec \o a_src
    IN  Average([k \in 1..Len(cells) |-> RelativeDifference(ef, ef, cells[k])])

\* the convergence metric over the three search areas
AverageRelativeDifference(ef_old, ef, a_obj, a_rec, a_src) ==
    LET cells == a_obj \o a_rec \o a_src
    IN  Average([k \in 1..Len(cells) |-> RelativeDifference(ef_old, ef, cells[k])])

\* the model of iterator: background everywhere, the object where the mask is
ObjectModel(ind_active, ind_object) ==
    LET bg == Masked([k \in 1..Len(ind_active) |-> par_background], ind_active)
    IN  [k \in 1..Len(bg) |-> IF ind_object[k] THEN par_object ELSE bg[k]]

(***************************************************************************)
(* State.                                                                  *)
(***************************************************************************)
VARIABLES
    \* what the caller passes unchanged on every call
    fn, type_object, axis, degrees_rad, refine_percentage,
    \* arguments that differ between a fresh and a resuming call
    lim_arg, diff_list, r_a_o_list, r_a_r_list, r_a_s_list, Ex,
    \* locals of iterator / iteratornonobject
    mesh, ind_active, model_map, model, ind_object, diff, i, lim_iterations,
    av_diff_list, refine_at_object_list, refine_at_receivers_list,
    refine_at_sources_list, ef_old, ef, curl,
    search_area_obj, search_area_receiv, search_area_sourc, pc,
    \* what the call leaves behind: return value, exception, error.npy
    ret, raised, error_npy,
    \* the solver and numpy's selection as functions fixed on first use
    solved, picked,
    \* the caller's chain of calls and counters of the running call
    chain, iterDone, early, chainRet, rerun, nIter, nSolve, nRebuild

configVars == <<fn, type_object, axis, degrees_rad, refine_percentage>>

argVars == <<lim_arg, diff_list, r_a_o_list, r_a_r_list, r_a_s_list, Ex>>

modelVars == <<ind_active, model_map, model, ind_object>>

listVars == <<refine_at_object_list, refine_at_receivers_list, refine_at_sources_list>>

fieldVars == <<ef_old, ef, curl>>

areaVars == <<search_area_obj, search_area_receiv, search_area_sourc>>

callerVars == <<chain, iterDone, early, chainRet, rerun>>

\* the budget the chain of calls has asked for so far
RECURSIVE SumSeq(_)
SumSeq(q) == IF Len(q) = 0 THEN 0 ELSE q[1] + SumSeq(Tail(q))

iterVars == <<configVars, argVars, mesh, modelVars, diff, i, lim_iterations,
              av_diff_list, listVars, fieldVars, areaVars, pc, ret, raised,
              error_npy, solved, picked, callerVars, nIter, nSolve, nRebuild>>

\* the mesh the caller builds before the first call: created around the
\* feature, refined at the sources and the receivers, finalized
InitialMesh(f) ==
    finalize(refine_at_locations(
        refine_at_locations(create_octree_mesh(domain, cell_width, Feature(f)),
                            source_locations),
        receiver_locations))

NoReturn == [form |-> "none", mesh |-> InitialMesh("iterator"), ef |-> NoField,
             rec |-> np_array(<<>>), lists |-> <<>>]

NoMap == [ind |-> <<>>, fill |-> 0]

\* error.npy before anything was saved
NoFile == [exists |-> FALSE, data |-> <<>>]

\* the locals of a frame that has not run yet
FreshLocals ==
    /\ ind_active' = <<>>
    /\ model_map' = NoMap
    /\ model' = <<>>
    /\ ind_object' = <<>>
    /\ diff' = Frac(0, 1)
    /\ i' = 0
    /\ av_diff_list' = <<>>
    /\ refine_at_object_list' = <<>>
    /\ refine_at_receivers_list' = <<>>
    /\ refine_at_sources_list' = <<>>
    /\ ef_old' = NoField
    /\ ef' = NoField
    /\ curl' = NoField
    /\ search_area_obj' = <<>>
    /\ search_area_receiv' = <<>>
    /\ search_area_sourc' = <<>>
    /\ nIter' = 0
    /\ nSolve' = 0
    /\ nRebuild' = 0

InitIter ==
    /\ fn \in {"iterator", "iteratornonobject"}
    /\ type_object \in {"block", "sphere"}
    /\ \E rot \in {<<"x", 0>>, <<"y", 1>>} : axis = rot[1] /\ degrees_rad = rot[2]
    /\ fn = "iteratornonobject" => type_object = "block" /\ degrees_rad = 0
    /\ type_object = "sphere" => degrees_rad = 0
    /\ refine_percentage \in {<<1, 20>>}
    /\ lim_arg = 0
    /\ diff_list = DefaultDiffList
    /\ r_a_o_list = <<>>
    /\ r_a_r_list = <<>>
    /\ r_a_s_list = <<>>
    /\ Ex = NoField
    /\ mesh = InitialMesh(fn)
    /\ ind_active = <<>>
    /\ model_map = NoMap
    /\ model = <<>>
    /\ ind_object = <<>>
    /\ diff = Frac(0, 1)
    /\ i = 0
    /\ lim_iterations = 0
    /\ av_diff_list = <<>>
    /\ refine_at_object_list = <<>>
    /\ refine_at_receivers_list = <<>>
    /\ refine_at_sources_list = <<>>
    /\ ef_old = NoField
    /\ ef = NoField
    /\ curl = NoField
    /\ search_area_obj = <<>>
    /\ search_area_receiv = <<>>
    /\ search_area_sourc = <<>>
    /\ pc = "idle"
    /\ ret = NoReturn
    /\ raised = "none"
    /\ error_npy = NoFile
    /\ solved = {}
    /\ picked = {}
    /\ chain = <<>>
    /\ iterDone = 0
    /\ early = FALSE
    /\ chainRet = NoReturn
    /\ rerun = FALSE
    /\ nIter = 0
    /\ nSolve = 0
    /\ nRebuild = 0

(***************************************************************************)
(* The caller: a first call, calls that resume from a returned state, and  *)
(* one call that repeats the whole chain's budget in a single run.         *)
(***************************************************************************)
\* a call that starts from scratch with lim_iterations = lim
CallFresh(lim) ==
    /\ pc = "idle"
    /\ lim \in 0..MaxTotal
    /\ lim_arg' = lim
    /\ diff_list' = DefaultDiffList
    /\ r_a_o_list' = <<>>
    /\ r_a_r_list' = <<>>
    /\ r_a_s_list' = <<>>
    /\ Ex' = NoField
    /\ mesh' = InitialMesh(fn)
    /\ lim_iterations' = lim
    /\ FreshLocals
    /\ pc' = "setup"
    /\ chain' = <<lim>>
    /\ UNCHANGED <<configVars, ret, raised, error_npy, solved, picked, early,
                   chainRet, rerun, iterDone>>

\* a call that passes back the seven values the previous call returned
CallResume(lim) ==
    /\ pc = "returned"
    /\ ret.form = "exhausted"
    /\ ~rerun
    /\ Len(chain) < MaxCalls
    /\ lim \in 0..(MaxTotal - SumSeq(chain))
    /\ lim_arg' = lim
    /\ diff_list' = ret.rec
    /\ r_a_o_list' = ret.lists[1]
    /\ r_a_r_list' = ret.lists[2]
    /\ r_a_s_list' = ret.lists[3]
    /\ Ex' = ret.ef
    /\ mesh' = ret.mesh
    /\ lim_iterations' = lim
    /\ FreshLocals
    /\ pc' = "setup"
    /\ chain' = Append(chain, lim)
    /\ iterDone' = iterDone + nIter
    /\ early' = (early \/ i < lim_iterations)
    /\ UNCHANGED <<configVars, ret, raised, error_npy, solved, picked,
                   chainRet, rerun>>

\* after a chain of at least two calls: one fresh call with the chain's
\* total budget, to compare with what the chain returned
CallAgain ==
    /\ pc = "returned"
    /\ ~rerun
    /\ Len(chain) >= 2
    /\ lim_arg' = SumSeq(chain)
    /\ diff_list' = DefaultDiffList
    /\ r_a_o_list' = <<>>
    /\ r_a_r_list' = <<>>
    /\ r_a_s_list' = <<>>
    /\ Ex' = NoField
    /\ mesh' = InitialMesh(fn)
    /\ lim_iterations' = SumSeq(chain)
    /\ FreshLocals
    /\ pc' = "setup"
    /\ chainRet' = ret
    /\ rerun' = TRUE
    /\ early' = (early \/ i < lim_iterations)
    /\ UNCHANGED <<configVars, ret, raised, error_npy, solved, picked, chain,
                   iterDone>>

(***************************************************************************)
(* iterator and iteratornonobject, one action per step of the body.        *)
(***************************************************************************)
\* the active cells of the current mesh
ActiveCellsOf(f, m) ==
    IF f = "iterator" THEN surface2ind_topo(m, surface)
    ELSE [k \in 1..Len(CellCenters(m)) |-> TRUE]

\* the map left as it was built for the mesh before
InjectActiveCellsStale(f, ind) ==
    [ind |-> model_map.ind, fill |-> IF f = "iterator" THEN par_background ELSE par_inactive]

\* maps.InjectActiveCells(mesh, ind_active, value)
InjectActiveCells(f, ind) ==
    [ind |-> ind, fill |-> IF f = "iterator" THEN par_background ELSE par_inactive]

\* the object mask of the initial setup: axis and rotation are passed on
IndObjectSetup(m, ind) ==
    IF type_object = "block"
    THEN get_ind_block(m, ind, coordinates, axis, degrees_rad)
    ELSE get_ind_sphere(m, ind, coordinates, radius)

\* the object mask after a rebuild with axis and rotation passed on as in
\* the setup
IndObjectRebuildRotated(m, ind) ==
    IF type_object = "block"
    THEN get_ind_block(m, ind, coordinates, axis, degrees_rad)
    ELSE get_ind_sphere(m, ind, coordinates, radius)

\* the object mask after a rebuild: get_ind_block is called with the
\* coordinates only
IndObjectRebuild(m, ind) ==
    IF type_object = "block"
    THEN get_ind_block_default(m, ind, coordinates)
    ELSE get_ind_sphere(m, ind, coordinates, radius)

\* the model for a mesh, given the object mask
ModelOf(f, m, ind, ind_obj) ==
    IF f = "iterator" THEN ObjectModel(ind, ind_obj)
    ELSE resistivity_function(CellCenters(m))

\* diff_list[0, 0] == 0: the call starts from scratch
StartsFresh(dl) == dl.rows[1][1] = 0

\* i = diff_list[-1, 0]
ResumeIndex(dl) == dl.rows[Len(dl.rows)][1]

\* the cap left as passed in
ResumeCapNoOffset(lim, start) == lim

\* lim_iterations = lim_iterations + i
ResumeCap(lim, start) == lim + start

\* the cap tested with "at most"
LoopGuardInclusive(d, k, lim) == GreaterThanThreshold(d) /\ k <= lim

\* while diff > 0.01 and i < lim_iterations
LoopGuard(d, k, lim) == GreaterThanThreshold(d) /\ k < lim

\* the metric computed in the first iteration of a fresh call too
MetricDueAlways(dl, k) == TRUE

\* the metric computed in every iteration by iteratornonobject
MetricDueByFunction(dl, k) ==
    IF fn = "iterator" THEN (IF StartsFresh(dl) THEN k > 0 ELSE TRUE) ELSE TRUE

\* the iterations that compute the convergence metric: all but the first
\* one of a call that starts from scratch
MetricDue(dl, k) == IF StartsFresh(dl) THEN k > 0 ELSE TRUE

\* the entry numbered with the loop counter itself
RecordEntryZeroBased(k, d) == <<k, d>>

\* av_diff_list.append([i + 1, diff])
RecordEntry(k, d) == <<k + 1, d>>

\* the setup before the loop: active cells, map, model, then the start mode
Setup ==
    /\ pc = "setup"
    /\ LET act == ActiveCellsOf(fn, mesh)
           obj == IF fn = "iterator" THEN IndObjectSetup(mesh, act) ELSE <<>>
       IN  /\ ind_active' = act
           /\ model_map' = InjectActiveCells(fn, act)
           /\ ind_object' = obj
           /\ model' = ModelOf(fn, mesh, act, obj)
    /\ diff' = Frac(10, 1)
    /\ IF diff_list.ndim # 2
       THEN \* diff_list[0, 0] on the one-dimensional empty array
            /\ raised' = "IndexError"
            /\ pc' = "raised"
            /\ UNCHANGED <<i, av_diff_list, listVars, lim_iterations, ef_old>>
       ELSE IF StartsFresh(diff_list)
       THEN /\ i' = 0
            /\ av_diff_list' = <<>>
            /\ refine_at_object_list' = <<>>
            /\ refine_at_receivers_list' = <<>>
            /\ refine_at_sources_list' = <<>>
            /\ pc' = "test"
            /\ UNCHANGED <<lim_iterations, ef_old, raised>>
       ELSE /\ i' = ResumeIndex(diff_list)
            /\ av_diff_list' = diff_list.rows
            /\ refine_at_object_list' = r_a_o_list
            /\ refine_at_receivers_list' = r_a_r_list
            /\ refine_at_sources_list' = r_a_s_list
            /\ lim_iterations' = ResumeCap(lim_iterations, ResumeIndex(diff_list))
            /\ ef_old' = Ex
            /\ pc' = "test"
            /\ UNCHANGED raised
    /\ UNCHANGED <<configVars, argVars, mesh, ef, curl, areaVars, ret,
                   error_npy, solved, picked, callerVars, nIter, nSolve, nRebuild>>

\* while diff > 0.01 and i < lim_iterations, then the three search areas
LoopTest ==
    /\ pc = "test"
    /\ IF LoopGuard(diff, i, lim_iterations)
       THEN /\ search_area_obj' = search_area(mesh, Feature(fn), FactorFeature(fn))
            /\ search_area_receiv' =
                   search_area(mesh, receiver_locations, FactorReceiver(fn))
            /\ search_area_sourc' =
                   search_area(mesh, source_locations, FactorSource(fn))
            /\ pc' = "solve"
       ELSE /\ pc' = "return"
            /\ UNCHANGED areaVars
    /\ UNCHANGED <<configVars, argVars, mesh, modelVars, diff, i, lim_iterations,
                   av_diff_list, listVars, fieldVars, ret, raised, error_npy,
                   solved, picked, callerVars, nIter, nSolve, nRebuild>>

\* the problem a forward solve is given
Problem == <<CellCenters(mesh), model_map, model>>

\* estimate_curl_electric_field: the flux-density and the electric-field
\* solve, and the six interpolators
Solve ==
    /\ pc = "solve"
    /\ \E e \in FieldVals :
          /\ \A r \in solved : r[1] = Problem => r[2] = e
          /\ solved' = solved \cup {<<Problem, e>>}
          /\ curl' = CurlInterpolators(mesh, e)
          /\ ef' = EFInterpolators(mesh, e)
    /\ nSolve' = nSolve + 1
    /\ pc' = "metric"
    /\ UNCHANGED <<configVars, argVars, mesh, modelVars, diff, i, lim_iterations,
                   av_diff_list, listVars, ef_old, areaVars, ret, raised,
                   error_npy, picked, callerVars, nIter, nRebuild>>

\* the comparison with the previous iteration's field
Metric ==
    /\ pc = "metric"
    /\ IF MetricDue(diff_list, i)
       THEN LET d == AverageRelativeDifference(ef_old, ef, search_area_obj,
                                               search_area_receiv, search_area_sourc)
            IN  /\ diff' = d
                /\ av_diff_list' = Append(av_diff_list, RecordEntry(i, d))
       ELSE UNCHANGED <<diff, av_diff_list>>
    /\ pc' = "cache"
    /\ UNCHANGED <<configVars, argVars, mesh, modelVars, i, lim_iterations,
                   listVars, fieldVars, areaVars, ret, raised, error_npy,
                   solved, picked, callerVars, nIter, nSolve, nRebuild>>

\* ef_old_x = ef_x, ef_old_y = ef_y, ef_old_z = ef_z
CacheOld ==
    /\ pc = "cache"
    /\ ef_old' = ef
    /\ pc' = "est_obj"
    /\ UNCHANGED <<configVars, argVars, mesh, modelVars, diff, i, lim_iterations,
                   av_diff_list, listVars, ef, curl, areaVars, ret, raised,
                   error_npy, solved, picked, callerVars, nIter, nSolve, nRebuild>>

\* estimate_error on one search area: the per-point errors and the selections
\* np.argpartition allows, none when it raises
CellErrors(area) == [k \in 1..Len(area) |-> compute_cell_error(area[k], curl, ef)]

Selections(area) ==
    EstimateErrorResults(area, CellErrors(area),
                         refine_percentage[1], refine_percentage[2])

\* numpy returns the same selection for the same errors
Pick(area, r) ==
    /\ \A q \in picked : q[1] = <<area, CellErrors(area)>> => q[2] = r
    /\ picked' = picked \cup {<<<<area, CellErrors(area)>>, r>>}

\* the list replaced by the new selection instead of extended
EstimateStepOverwrite(area, before, after, nextpc) ==
    /\ error_npy' = [exists |-> TRUE, data |-> CellErrors(area)]
    /\ LET results == Selections(area)
       IN  IF results = {}
           THEN /\ raised' = "ValueError"
                /\ pc' = "raised"
                /\ after = before
                /\ UNCHANGED picked
           ELSE /\ \E r \in results :
                      /\ Pick(area, r)
                      /\ after = <<r>>
                /\ pc' = nextpc
                /\ UNCHANGED raised

\* error.npy extended by the new errors instead of overwritten
EstimateStepAppendFile(area, before, after, nextpc) ==
    /\ error_npy' = [exists |-> TRUE, data |-> error_npy.data \o CellErrors(area)]
    /\ LET results == Selections(area)
       IN  IF results = {}
           THEN /\ raised' = "ValueError"
                /\ pc' = "raised"
                /\ after = before
                /\ UNCHANGED picked
           ELSE /\ \E r \in results :
                      /\ Pick(area, r)
                      /\ after = Append(before, r)
                /\ pc' = nextpc
                /\ UNCHANGED raised

\* one call of estimate_error on area; appended is the list it is appended
\* to, before and after
EstimateStep(area, before, after, nextpc) ==
    /\ error_npy' = [exists |-> TRUE, data |-> CellErrors(area)]
    /\ LET results == Selections(area)
       IN  IF results = {}
           THEN /\ raised' = "ValueError"
                /\ pc' = "raised"
                /\ after = before
                /\ UNCHANGED picked
           ELSE /\ \E r \in results :
                      /\ Pick(area, r)
                      /\ after = Append(before, r)
                /\ pc' = nextpc
                /\ UNCHANGED raised

\* cells to refine near the object (the landscape), appended to its list
EstimateObject ==
    /\ pc = "est_obj"
    /\ EstimateStep(search_area_obj, refine_at_object_list,
                    refine_at_object_list', "est_rec")
    /\ UNCHANGED <<refine_at_receivers_list, refine_at_sources_list>>
    /\ UNCHANGED <<configVars, argVars, mesh, modelVars, diff, i, lim_iterations,
                   av_diff_list, fieldVars, areaVars, ret, solved, callerVars,
                   nIter, nSolve, nRebuild>>

\* cells to refine near the receivers
EstimateReceivers ==
    /\ pc = "est_rec"
    /\ EstimateStep(search_area_receiv, refine_at_receivers_list,
                    refine_at_receivers_list', "est_src")
    /\ UNCHANGED <<refine_at_object_list, refine_at_sources_list>>
    /\ UNCHANGED <<configVars, argVars, mesh, modelVars, diff, i, lim_iterations,
                   av_diff_list, fieldVars, areaVars, ret, solved, callerVars,
                   nIter, nSolve, nRebuild>>

\* cells to refine near the sources
EstimateSources ==
    /\ pc = "est_src"
    /\ EstimateStep(search_area_sourc, refine_at_sources_list,
                    refine_at_sources_list', "rebuild")
    /\ UNCHANGED <<refine_at_object_list, refine_at_receivers_list>>
    /\ UNCHANGED <<configVars, argVars, mesh, modelVars, diff, i, lim_iterations,
                   av_diff_list, fieldVars, areaVars, ret, solved, callerVars,
                   nIter, nSolve, nRebuild>>

\* for ref in entries: refine_at_locations(mesh, ref)
RECURSIVE RefineEach(_, _)
RefineEach(m, entries) ==
    IF Len(entries) = 0 THEN m
    ELSE RefineEach(refine_at_locations(m, entries[1]), Tail(entries))

\* the last entry of a list, as a list
LastEntry(entries) ==
    IF Len(entries) = 0 THEN <<>> ELSE <<entries[Len(entries)]>>

\* a rebuild that replays only the current iteration's requests
RebuiltMeshCurrentOnly(f, o_list, r_list, s_list) ==
    finalize(
      RefineEach(
        RefineEach(
          RefineEach(
            refine_at_locations(
              refine_at_locations(
                create_octree_mesh(domain, cell_width, Feature(f)),
                source_locations),
              receiver_locations),
            LastEntry(o_list)),
          LastEntry(r_list)),
        LastEntry(s_list)))

\* the mesh of the next iteration: created afresh, every request replayed,
\* finalized
RebuiltMesh(f, o_list, r_list, s_list) ==
    finalize(
      RefineEach(
        RefineEach(
          RefineEach(
            refine_at_locations(
              refine_at_locations(
                create_octree_mesh(domain, cell_width, Feature(f)),
                source_locations),
              receiver_locations),
            o_list),
          r_list),
        s_list))

Rebuild ==
    /\ pc = "rebuild"
    /\ mesh' = RebuiltMesh(fn, refine_at_object_list, refine_at_receivers_list,
                           refine_at_sources_list)
    /\ nRebuild' = nRebuild + 1
    /\ pc' = "remodel"
    /\ UNCHANGED <<configVars, argVars, modelVars, diff, i, lim_iterations,
                   av_diff_list, listVars, fieldVars, areaVars, ret, raised,
                   error_npy, solved, picked, callerVars, nIter, nSolve>>

\* active cells, map and model for the new mesh, and i += 1
Remodel ==
    /\ pc = "remodel"
    /\ LET act == ActiveCellsOf(fn, mesh)
           obj == IF fn = "iterator" THEN IndObjectRebuild(mesh, act) ELSE <<>>
       IN  /\ ind_active' = act
           /\ model_map' = InjectActiveCells(fn, act)
           /\ ind_object' = obj
           /\ model' = ModelOf(fn, mesh, act, obj)
    /\ i' = i + 1
    /\ nIter' = nIter + 1
    /\ pc' = "test"
    /\ UNCHANGED <<configVars, argVars, mesh, diff, lim_iterations,
                   av_diff_list, listVars, fieldVars, areaVars, ret, raised,
                   error_npy, solved, picked, callerVars, nSolve, nRebuild>>

\* the two forms with the test turned around
ReturnValueInverted(d, m, e, record, o_list, r_list, s_list) ==
    IF GreaterThanThreshold(d)
    THEN [form |-> "converged", mesh |-> m, ef |-> e,
          rec |-> np_array(record), lists |-> <<>>]
    ELSE [form |-> "exhausted", mesh |-> m, ef |-> e,
          rec |-> np_array(record), lists |-> <<o_list, r_list, s_list>>]

\* a history list without its last entry
EntriesBefore(entries) == SubSeq(entries, 1, Len(entries) - 1)

\* the mesh returned is the one the returned field was computed on
ReturnValueSolvedMesh(d, m, e, record, o_list, r_list, s_list) ==
    IF LessThanThreshold(d)
    THEN [form |-> "converged",
          mesh |-> RebuiltMesh(fn, EntriesBefore(o_list), EntriesBefore(r_list),
                               EntriesBefore(s_list)),
          ef |-> e, rec |-> np_array(record), lists |-> <<>>]
    ELSE [form |-> "exhausted",
          mesh |-> RebuiltMesh(fn, EntriesBefore(o_list), EntriesBefore(r_list),
                               EntriesBefore(s_list)),
          ef |-> e, rec |-> np_array(record), lists |-> <<o_list, r_list, s_list>>]

\* if diff < 0.01: the five values, else the eight values
ReturnValue(d, m, e, record, o_list, r_list, s_list) ==
    IF LessThanThreshold(d)
    THEN [form |-> "converged", mesh |-> m, ef |-> e,
          rec |-> np_array(record), lists |-> <<>>]
    ELSE [form |-> "exhausted", mesh |-> m, ef |-> e,
          rec |-> np_array(record), lists |-> <<o_list, r_list, s_list>>]

\* the two return statements; ef_x is unbound if the body never ran
Return ==
    /\ pc = "return"
    /\ IF ~ef.bound
       THEN /\ raised' = "UnboundLocalError"
            /\ pc' = "raised"
            /\ UNCHANGED ret
       ELSE /\ ret' = ReturnValue(diff, mesh, ef, av_diff_list,
                                  refine_at_object_list, refine_at_receivers_list,
                                  refine_at_sources_list)
            /\ pc' = "returned"
            /\ UNCHANGED raised
    /\ UNCHANGED <<configVars, argVars, mesh, modelVars, diff, i, lim_iterations,
                   av_diff_list, listVars, fieldVars, areaVars, error_npy,
                   solved, picked, callerVars, nIter, nSolve, nRebuild>>

(***************************************************************************)
(* estimate_error on its own: any search area, any errors, any percentage. *)
(***************************************************************************)
VARIABLE ee

\* the refine_percentage values tried: 0, 0.05, 0.5, 1
Percentages == {<<0, 1>>, <<1, 20>>, <<1, 2>>, <<1, 1>>}

InitEstimate ==
    \E N \in 0..MaxArea :
        \E errs \in [1..N -> 0..MaxErr], p \in Percentages :
            ee = [pc |-> "call", search_area |-> [k \in 1..N |-> k + 10],
                  cell_errors |-> errs, refine_percentage |-> p,
                  cells_to_refine |-> <<>>]

EstimateIdle ==
    ee = [pc |-> "idle", search_area |-> <<>>, cell_errors |-> <<>>,
          refine_percentage |-> <<0, 1>>, cells_to_refine |-> <<>>]

\* estimate_error(search_area, ..., refine_percentage)
estimate_error ==
    /\ ee.pc = "call"
    /\ LET results == EstimateErrorResults(ee.search_area, ee.cell_errors,
                                           ee.refine_percentage[1],
                                           ee.refine_percentage[2])
       IN  IF results = {}
           THEN ee' = [ee EXCEPT !.pc = "raised"]
           ELSE \E r \in results :
                    ee' = [ee EXCEPT !.pc = "returned", !.cells_to_refine = r]

(***************************************************************************)
(* The split of a solution array into its x, y and z blocks.               *)
(***************************************************************************)
VARIABLE sl

\* a solution array of a mesh with nx + ny + nz faces (edges), one column
\* per source
InitSplit ==
    \E nx \in 0..MaxCount, ny \in 0..MaxCount, nz \in 0..MaxCount :
        \E a \in [1..(nx + ny + nz) -> {0, 1}], kind \in {"faces", "edges"},
           nsrc \in {1, 2} :
            sl = [pc |-> "solved", kind |-> kind, n_x |-> nx, n_y |-> ny,
                  n_z |-> nz, nsrc |-> nsrc, solution |-> a,
                  x |-> <<>>, y |-> <<>>, z |-> <<>>]

SplitIdle ==
    sl = [pc |-> "idle", kind |-> "faces", n_x |-> 0, n_y |-> 0, n_z |-> 0,
          nsrc |-> 1, solution |-> <<>>, x |-> <<>>, y |-> <<>>, z |-> <<>>]

\* a[0:n_x], a[n_x:n_x + n_y], a[n_x + n_y:n_x + n_y + n_z]
BlockX(a, nx, ny, nz) == PySlice(a, 0, nx)

\* the y block taken one element late
BlockYShifted(a, nx, ny, nz) == PySlice(a, nx + 1, nx + ny + 1)

BlockY(a, nx, ny, nz) == PySlice(a, nx, nx + ny)

BlockZ(a, nx, ny, nz) == PySlice(a, nx + ny, nx + ny + nz)

\* np.reshape(a, len(a)) works for one column only, then the three slices
SplitBlocks(kind) ==
    /\ sl.pc = "solved"
    /\ sl.kind = kind
    /\ IF sl.nsrc # 1
       THEN sl' = [sl EXCEPT !.pc = "raised"]
       ELSE sl' = [sl EXCEPT !.pc = "split",
                      !.x = BlockX(sl.solution, sl.n_x, sl.n_y, sl.n_z),
                      !.y = BlockY(sl.solution, sl.n_x, sl.n_y, sl.n_z),
                      !.z = BlockZ(sl.solution, sl.n_x, sl.n_y, sl.n_z)]

\* curl[...] by the face counts
SplitCurl == SplitBlocks("faces")

\* EF[...] by the edge counts
SplitElectricField == SplitBlocks("edges")

(***************************************************************************)
(* compute_cell_error on a linear field, with all three components.        *)
(***************************************************************************)
VARIABLE ce

\* largest coefficient of the linear field and of the constant curl
MaxCoef == 1

Coefs == (0 - MaxCoef)..MaxCoef

\* the points the error is evaluated at
SamplePoints == {<<0, 0, 0>>, <<1, -2, 3>>}

\* ef_interpolator(x) for interpolators of E(x, y, z) = (a*y, b*z, c*x)
LinearField(a, b, c, x) == <<a * x[2], b * x[3], c * x[1]>>

\* x moved by h along coordinate j
Moved(x, j, h) == [k \in 1..3 |-> IF k = j THEN x[k] + h ELSE x[k]]

\* nd.Jacobian(ef_interpolator)(cell): the entry in row r, column k is dE_r/dx_k, here
\* the central difference with step 1, which is exact on a linear field
Jacobian(a, b, c, cell) ==
    [row \in 1..3 |->
        [col \in 1..3 |->
            (LinearField(a, b, c, Moved(cell, col, 1))[row]
               - LinearField(a, b, c, Moved(cell, col, -1))[row]) \div 2]]

\* the second component with its two terms exchanged
CurlOfJacobianSwapped(J) ==
    <<J[3][2] - J[2][3], J[3][1] - J[1][3], J[2][1] - J[1][2]>>

\* curl = [jacobian[2, 1] - jacobian[1, 2], jacobian[0, 2] - jacobian[2, 0],
\*         jacobian[1, 0] - jacobian[0, 1]], indices from 0 in the code
CurlOfJacobian(J) ==
    <<J[3][2] - J[2][3], J[1][3] - J[3][1], J[2][1] - J[1][2]>>

\* np.linalg.norm(v) squared; the norm is 0 exactly when this is 0
NormSquared(v) == v[1] * v[1] + v[2] * v[2] + v[3] * v[3]

\* the square of error = np.linalg.norm(curl_field - curl)
CellErrorSquared(J, curl_field) ==
    LET c == CurlOfJacobian(J)
    IN  NormSquared(<<curl_field[1] - c[1], curl_field[2] - c[2],
                      curl_field[3] - c[3]>>)

\* a linear field, curl interpolators that return one constant vector, a point
InitCellError ==
    \E a \in Coefs, b \in Coefs, c \in Coefs, cell \in SamplePoints :
        \E cf \in Coefs \X Coefs \X Coefs :
            ce = [pc |-> "call", a |-> a, b |-> b, c |-> c, cell |-> cell,
                  curl_field |-> cf, error_sq |-> 0]

CellErrorIdle ==
    ce = [pc |-> "idle", a |-> 0, b |-> 0, c |-> 0, cell |-> <<0, 0, 0>>,
          curl_field |-> <<0, 0, 0>>, error_sq |-> 0]

\* compute_cell_error(cell, curl_x, curl_y, curl_z, ef_x, ef_y, ef_z)
ComputeCellError ==
    /\ ce.pc = "call"
    /\ ce' = [ce EXCEPT !.pc = "returned",
                        !.error_sq = CellErrorSquared(
                                         Jacobian(ce.a, ce.b, ce.c, ce.cell),
                                         ce.curl_field)]

(***************************************************************************)
(* realisticmodel: the seafloor taken from the resistivity model.          *)
(***************************************************************************)
VARIABLE sfl

\* most cells along z, and number of (x, y) columns of the mesh
MaxCellsZ == 3

NColumns == 2

\* resistivities in hundredths of an Ohm.m: seawater 0.3, the limit itself,
\* sediment 1
Resistivities == {30, 33, 100}

\* model.property_x[i, ii, :] < 0.33, on hundredths
BelowSeawater(r) == r < 33

\* mesh.nodes_z of a tensor mesh with nz cells: nz + 1 nodes, ascending, the
\* last one at the surface
NodesZ(nz) == [k \in 1..(nz + 1) |-> 10 * (k - nz - 1) - (nz + 1 - k) * (nz - k)]

\* a[:-1]
AllButLast(a) == PySlice(a, 0, Len(a) - 1)

\* the last selected entry instead of the first
PickLast(a) == a[Len(a)]

\* a[0]
PickFirst(a) == a[1]

\* mesh.nodes_z[:-1][model.property_x[i, ii, :] < 0.33]
SeawaterNodes(nodes_z, column) ==
    Masked(AllButLast(nodes_z), [k \in 1..Len(column) |-> BelowSeawater(column[k])])

\* a mesh and a model: every column holds one resistivity per cell along z
InitSeafloor ==
    \E nz \in 1..MaxCellsZ :
        \E prop \in [1..NColumns -> [1..nz -> Resistivities]] :
            sfl = [pc |-> "loaded", nodes_z |-> NodesZ(nz), property_x |-> prop,
                   seafloor |-> [c \in 1..NColumns |-> 1]]

SeafloorIdle ==
    sfl = [pc |-> "idle", nodes_z |-> <<0>>, property_x |-> <<>>, seafloor |-> <<>>]

\* the two loops over the columns; indexing an empty selection with [0]
\* raises IndexError
ExtractSeafloor ==
    /\ sfl.pc = "loaded"
    /\ IF \E c \in 1..NColumns : Len(SeawaterNodes(sfl.nodes_z, sfl.property_x[c])) = 0
       THEN sfl' = [sfl EXCEPT !.pc = "raised"]
       ELSE sfl' = [sfl EXCEPT
                      !.pc = "done",
                      !.seafloor = [c \in 1..NColumns |->
                          PickFirst(SeawaterNodes(sfl.nodes_z, sfl.property_x[c]))]]

(***************************************************************************)
(* realisticmodel: loading the model file, fetched when it is not there.   *)
(* The working directory outlives a run; runs follow one another.          *)
(***************************************************************************)
VARIABLE ft

\* number of runs in one working directory
MaxRuns == 6

\* what the file GemPy-II.h5 may hold: the model, something else, nothing
Contents == {"model", "other", "empty"}

NoModelFile == [exists |-> FALSE, data |-> "empty"]

\* the test with the negation dropped
NeedsFetchInverted(file) == file.exists

\* if not os.path.isfile(fname)
NeedsFetch(file) == ~file.exists

\* the directory before the first run: without the file or with one from
\* before
InitFetch ==
    \E file \in {NoModelFile} \cup {[exists |-> TRUE, data |-> d] : d \in Contents} :
        ft = [pc |-> "idle", file |-> file, run |-> 0, at_start |-> file,
              requested |-> FALSE, request_runs |-> {}, fetched_in |-> 0]

FetchIdle ==
    ft = [pc |-> "never", file |-> NoModelFile, run |-> 0, at_start |-> NoModelFile,
          requested |-> FALSE, request_runs |-> {}, fetched_in |-> 0]

\* the script is started
StartRun ==
    /\ ft.pc \in {"idle", "done", "failed"}
    /\ ft.run < MaxRuns
    /\ ft' = [ft EXCEPT !.pc = "isfile", !.run = @ + 1, !.at_start = ft.file,
                        !.requested = FALSE]

\* if not os.path.isfile(fname):
TestFile ==
    /\ ft.pc = "isfile"
    /\ ft' = [ft EXCEPT !.pc = IF NeedsFetch(ft.file) THEN "open" ELSE "load"]

\* the file not created until there is something to write
OpenFileLate ==
    /\ ft.pc = "open"
    /\ ft' = [ft EXCEPT !.pc = "get"]

\* with open(fname, 'wb') as f: the file is created empty
OpenFile ==
    /\ ft.pc = "open"
    /\ ft' = [ft EXCEPT !.pc = "get", !.file = [exists |-> TRUE, data |-> "empty"]]

\* t = requests.get(url): answers with some content, or raises
GetUrl ==
    /\ ft.pc = "get"
    /\ \/ \E content \in {"model", "other"} :
             ft' = [ft EXCEPT !.pc = content, !.requested = TRUE,
                              !.request_runs = @ \cup {ft.run}]
       \/ ft' = [ft EXCEPT !.pc = "failed", !.requested = TRUE,
                           !.request_runs = @ \cup {ft.run}]

\* f.write(t.content), and the file is closed
WriteFile ==
    /\ ft.pc \in {"model", "other"}
    /\ ft' = [ft EXCEPT !.pc = "load", !.file = [exists |-> TRUE, data |-> ft.pc],
                        !.fetched_in = IF @ = 0 THEN ft.run ELSE @]

\* data = emg3d.load(fname): reads the file, fails on anything but a model
LoadFile ==
    /\ ft.pc = "load"
    /\ ft' = [ft EXCEPT !.pc = IF ft.file.data = "model" THEN "done" ELSE "failed"]

(***************************************************************************)
(* Specifications.                                                         *)
(***************************************************************************)
\* the state of the functions checked on their own
pureVars == <<ee, sl, ce, sfl, ft>>

vars == <<iterVars, pureVars>>

\* a fixed state of the refinement loop for the specifications that do not
\* use it
IterIdle ==
    /\ InitIter
    /\ fn = "iterator"
    /\ type_object = "block"
    /\ axis = "x"
    /\ degrees_rad = 0

Init == InitIter /\ EstimateIdle /\ SplitIdle /\ CellErrorIdle /\ SeafloorIdle /\ FetchIdle

Next ==
    \/ (\E lim \in 0..MaxTotal : CallFresh(lim)) /\ UNCHANGED pureVars
    \/ (\E lim \in 0..MaxTotal : CallResume(lim)) /\ UNCHANGED pureVars
    \/ (CallAgain) /\ UNCHANGED pureVars
    \/ (Setup) /\ UNCHANGED pureVars
    \/ (LoopTest) /\ UNCHANGED pureVars
    \/ (Solve) /\ UNCHANGED pureVars
    \/ (Metric) /\ UNCHANGED pureVars
    \/ (CacheOld) /\ UNCHANGED pureVars
    \/ (EstimateObject) /\ UNCHANGED pureVars
    \/ (EstimateReceivers) /\ UNCHANGED pureVars
    \/ (EstimateSources) /\ UNCHANGED pureVars
    \/ (Rebuild) /\ UNCHANGED pureVars
    \/ (Remodel) /\ UNCHANGED pureVars
    \/ (Return) /\ UNCHANGED pureVars

Spec == Init /\ [][Next]_vars

\* the positions of a call between its entry and its end
Running == {"setup", "test", "solve", "metric", "cache", "est_obj", "est_rec",
            "est_src", "rebuild", "remodel", "return"}

Positions == Running \cup {"idle", "returned", "raised"}

\* a running call moves on: the interpreter executes the next statement.  The
\* steps of Next that change pc at a running position are exactly the steps
\* of the function body, and one of them is possible at every such position.
Advance == pc \in Running /\ pc' \in Positions

FairSpec == Init /\ [][Next]_vars /\ WF_pc(Advance)

InitE == IterIdle /\ InitEstimate /\ SplitIdle /\ CellErrorIdle /\ SeafloorIdle /\ FetchIdle

NextE == estimate_error /\ UNCHANGED <<iterVars, sl, ce, sfl, ft>>

SpecEstimate == InitE /\ [][NextE]_vars

InitS == IterIdle /\ EstimateIdle /\ InitSplit /\ CellErrorIdle /\ SeafloorIdle /\ FetchIdle

NextS ==
    \/ SplitCurl /\ UNCHANGED <<iterVars, ee, ce, sfl, ft>>
    \/ SplitElectricField /\ UNCHANGED <<iterVars, ee, ce, sfl, ft>>

SpecSplit == InitS /\ [][NextS]_vars

InitC ==
    IterIdle /\ EstimateIdle /\ SplitIdle /\ InitCellError /\ SeafloorIdle /\ FetchIdle

NextC == ComputeCellError /\ UNCHANGED <<iterVars, ee, sl, sfl, ft>>

SpecCellError == InitC /\ [][NextC]_vars

InitF ==
    IterIdle /\ EstimateIdle /\ SplitIdle /\ CellErrorIdle /\ InitSeafloor /\ FetchIdle

NextF == ExtractSeafloor /\ UNCHANGED <<iterVars, ee, sl, ce, ft>>

SpecSeafloor == InitF /\ [][NextF]_vars

InitL ==
    IterIdle /\ EstimateIdle /\ SplitIdle /\ CellErrorIdle /\ SeafloorIdle /\ InitFetch

NextL ==
    \/ StartRun /\ UNCHANGED <<iterVars, ee, sl, ce, sfl>>
    \/ TestFile /\ UNCHANGED <<iterVars, ee, sl, ce, sfl>>
    \/ OpenFile /\ UNCHANGED <<iterVars, ee, sl, ce, sfl>>
    \/ GetUrl /\ UNCHANGED <<iterVars, ee, sl, ce, sfl>>
    \/ WriteFile /\ UNCHANGED <<iterVars, ee, sl, ce, sfl>>
    \/ LoadFile /\ UNCHANGED <<iterVars, ee, sl, ce, sfl>>

SpecFetch == InitL /\ [][NextL]_vars

(***************************************************************************)
(* Properties of the refinement loop (specifications Spec and FairSpec).   *)
(***************************************************************************)
\* the running (or last) call resumes from what an earlier call returned
Resumed == Len(chain) >= 2 /\ ~rerun

\* a call has passed its setup and its locals are those of the frame
Started == pc \notin {"idle", "setup"} /\ raised # "IndexError"

\* what a resuming call was handed; a fresh call starts from nothing
SuppliedRows == IF Resumed THEN diff_list.rows ELSE <<>>

SuppliedObject == IF Resumed THEN r_a_o_list ELSE <<>>

SuppliedReceivers == IF Resumed THEN r_a_r_list ELSE <<>>

SuppliedSources == IF Resumed THEN r_a_s_list ELSE <<>>

\* the record entries this call has appended
AppendedRows == SubSeq(av_diff_list, Len(SuppliedRows) + 1, Len(av_diff_list))

IsPrefix(a, b) == Len(a) <= Len(b) /\ SubSeq(b, 1, Len(a)) = a

\* the comparisons of the claims, on exact numbers
Below001(x) == x.k = "num" /\ 100 * x.n < x.d

Above001(x) == x.k = "inf" \/ (x.k = "num" /\ 100 * x.n > x.d)

\* the difference went below 0.01 on an iteration of this call
Crossed == \E k \in 1..Len(AppendedRows) : Below001(AppendedRows[k][2])

\* C1: a call in which the average relative difference crosses 0.01 returns
\* the converged form (mesh, final field interpolators, record) without the
\* history lists; a call in which it never does returns the budget-exhausted
\* form: the same values followed by the three history lists.
C1_ReturnForm ==
    pc = "returned" =>
        /\ ret.mesh = mesh
        /\ ret.ef = ef
        /\ ret.rec = np_array(av_diff_list)
        /\ IF Crossed
           THEN ret.form = "converged" /\ ret.lists = <<>>
           ELSE /\ ret.form = "exhausted"
                /\ ret.lists = <<refine_at_object_list, refine_at_receivers_list,
                                 refine_at_sources_list>>

\* a call that crossed 0.01 on its third or a later iteration and returned
C1_Witness ==
    /\ pc = "returned"
    /\ Crossed
    /\ nIter >= 3
    /\ i < lim_iterations

\* C2: iterator run once with lim_iterations = 5 ends in the same state
\* (mesh, field interpolators, record, three history lists) as a run with
\* lim_iterations = 3 resumed with lim_iterations = 2 from what it returned,
\* when neither run converges early.
C2_ResumeEquivalence ==
    ( /\ fn = "iterator"
      /\ pc = "returned"
      /\ rerun
      /\ chain = <<3, 2>>
      /\ ~early
      /\ nIter = 5
      /\ ret.form = "exhausted"
      /\ chainRet.form = "exhausted" )
    => /\ ret.mesh = chainRet.mesh
       /\ ret.ef = chainRet.ef
       /\ ret.rec = chainRet.rec
       /\ ret.lists = chainRet.lists

\* every entry of a list is kept in place and at most one is added
AppendOnly(before, after) ==
    IsPrefix(before, after) /\ Len(after) <= Len(before) + 1

\* C4: each executed iteration appends exactly one entry to each of the three
\* history lists and no step removes or replaces an earlier entry: at the
\* loop test after n iterations each list has its supplied length (0 in a
\* fresh run) plus n.
C4_OneEntryPerIteration ==
    /\ [](pc = "test" =>
            /\ Len(refine_at_object_list) = Len(SuppliedObject) + nIter
            /\ Len(refine_at_receivers_list) = Len(SuppliedReceivers) + nIter
            /\ Len(refine_at_sources_list) = Len(SuppliedSources) + nIter)
    /\ [][(pc \notin {"idle", "setup", "returned", "raised"}) =>
            /\ AppendOnly(refine_at_object_list, refine_at_object_list')
            /\ AppendOnly(refine_at_receivers_list, refine_at_receivers_list')
            /\ AppendOnly(refine_at_sources_list, refine_at_sources_list')]_vars

\* a resumed call at its loop test after two iterations of its own
C4_Witness ==
    /\ pc = "test"
    /\ Resumed
    /\ Len(SuppliedObject) >= 2
    /\ nIter = 2

\* the refinement requests a mesh has received
Requests(m) == {m.ops[k].pts : k \in {q \in 1..Len(m.ops) : m.ops[q].op = "refine"}}

\* C5: a mesh rebuilt inside the loop is created from the unchanged domain and
\* cell_width and receives, before its single and final finalize, a request
\* for the sources, the receivers and every entry of the three history lists
\* (the current iteration's included), and nothing else but the creation's
\* own pass.
C5_RebuildReplaysAll ==
    pc = "remodel" =>
        /\ mesh.domain = domain
        /\ mesh.cell_width = cell_width
        /\ {k \in 1..Len(mesh.ops) : mesh.ops[k].op = "finalize"} = {Len(mesh.ops)}
        /\ Len(mesh.ops) = 4 + Len(refine_at_object_list)
                             + Len(refine_at_receivers_list)
                             + Len(refine_at_sources_list)
        /\ source_locations \in Requests(mesh)
        /\ receiver_locations \in Requests(mesh)
        /\ Range(refine_at_object_list) \subseteq Requests(mesh)
        /\ Range(refine_at_receivers_list) \subseteq Requests(mesh)
        /\ Range(refine_at_sources_list) \subseteq Requests(mesh)

\* a rebuild in the third iteration whose lists hold different entries
C5_Witness ==
    /\ pc = "remodel"
    /\ nIter = 2
    /\ Len(refine_at_object_list) = 3
    /\ refine_at_object_list[1] # refine_at_object_list[3]
    /\ refine_at_sources_list[1] # refine_at_sources_list[3]

\* the object indicator for what the caller passed
CallerIndicator ==
    IF type_object = "block"
    THEN get_ind_block(mesh, ind_active, coordinates, axis, degrees_rad)
    ELSE get_ind_sphere(mesh, ind_active, coordinates, radius)

\* C6: in iterator, after the setup and after every rebuild, the model has
\* one value per active cell of the current mesh: par_object where the
\* indicator for the caller's coordinates, axis, rotation and radius holds,
\* par_background elsewhere.
C6_ModelMatchesIndicator ==
    (fn = "iterator" /\ pc = "test") =>
        /\ ind_active = surface2ind_topo(mesh, surface)
        /\ Len(model) = Cardinality({k \in 1..Len(ind_active) : ind_active[k]})
        /\ \A k \in 1..Len(model) :
              model[k] = IF CallerIndicator[k] THEN par_object ELSE par_background

\* C7: the loop terminates: the body runs only while the difference exceeds
\* 0.01 and the counter is below the cap, the counter grows by exactly one
\* per iteration and changes nowhere else in the loop, a fresh call executes
\* at most lim_iterations iterations, solves and rebuilds, and every call that
\* starts ends (returns or raises).
C7_LoopTerminates ==
    /\ [](pc = "solve" => Above001(diff) /\ i < lim_iterations)
    /\ [][(pc \notin {"idle", "setup", "returned", "raised"}) =>
            IF pc = "remodel" THEN i' = i + 1 ELSE i' = i]_vars
    /\ []((~Resumed /\ Started) =>
            /\ i = nIter
            /\ nIter <= lim_arg
            /\ nSolve <= lim_arg
            /\ nRebuild <= lim_arg)
    /\ (pc = "setup") ~> (pc \in {"returned", "raised"})

\* a fresh call that used its whole budget of several iterations
C7_Witness ==
    /\ pc = "returned"
    /\ ~Resumed
    /\ lim_arg >= 3
    /\ nIter = lim_arg
    /\ nSolve = lim_arg
    /\ nRebuild = lim_arg

\* the indices of a record go up by one from entry to entry
Consecutive(rows) == \A k \in 2..Len(rows) : rows[k][1] = rows[k - 1][1] + 1

\* the index a resuming call reads from the supplied record
SuppliedIndex == diff_list.rows[Len(diff_list.rows)][1]

\* C8: a resuming call starts at index diff_list[-1, 0], the number of
\* iterations completed before it; its cap is lim_iterations plus that index,
\* so it runs at most lim_iterations iterations; it starts from the supplied
\* history lists and takes Ex/Ey/Ez as the previous field of its first
\* metric; its record extends the supplied one with consecutive indices.
C8_ResumeMode ==
    (Resumed /\ Started) =>
        /\ SuppliedIndex = iterDone
        /\ i = SuppliedIndex + nIter
        /\ lim_iterations = lim_arg + SuppliedIndex
        /\ nIter <= lim_arg
        /\ IsPrefix(r_a_o_list, refine_at_object_list)
        /\ IsPrefix(r_a_r_list, refine_at_receivers_list)
        /\ IsPrefix(r_a_s_list, refine_at_sources_list)
        /\ (pc = "test" /\ nIter = 0) =>
              /\ refine_at_object_list = r_a_o_list
              /\ refine_at_receivers_list = r_a_r_list
              /\ refine_at_sources_list = r_a_s_list
              /\ ef_old = Ex
        /\ (pc = "cache" /\ nIter = 0) =>
              diff = AverageRelativeDifference(Ex, ef, search_area_obj,
                                               search_area_receiv, search_area_sourc)
        /\ IsPrefix(diff_list.rows, av_diff_list)
        /\ Consecutive(av_diff_list)
        /\ (pc = "cache") => av_diff_list[Len(av_diff_list)][1] = iterDone + nIter + 1

\* a call resumed after three iterations that ran two more and returned
C8_Witness ==
    /\ Resumed
    /\ pc = "returned"
    /\ iterDone = 3
    /\ nIter = 2
    /\ Len(av_diff_list) = 4

\* what the record holds once an iteration has passed its metric step
RecordAfterMetric ==
    pc = "cache" =>
        IF ~Resumed /\ nIter = 0
        THEN av_diff_list = <<>>
        ELSE /\ Len(AppendedRows) = (IF Resumed THEN nIter + 1 ELSE nIter)
             /\ av_diff_list[Len(av_diff_list)] = <<i + 1, diff>>
             /\ diff = AverageRelativeDifference(ef_old, ef, search_area_obj,
                                                 search_area_receiv,
                                                 search_area_sourc)

\* the record changes in the metric step only, by one appended entry
RecordSteps ==
    /\ Started => Consecutive(av_diff_list)
    /\ (pc \in {"test", "solve", "metric"}) =>
          Len(AppendedRows) = (IF Resumed THEN nIter
                               ELSE IF nIter = 0 THEN 0 ELSE nIter - 1)

\* C9 as stated: the first iteration of a fresh run appends nothing to the
\* record, every other iteration appends one pair (k, d) with k its 1-based
\* number and d the average relative difference, indices are consecutive,
\* and whenever the record has an entry the loop guard tests the d appended
\* last.
C9_GuardTestsLastRecorded ==
    /\ RecordAfterMetric
    /\ RecordSteps
    /\ (pc = "test" /\ Len(av_diff_list) > 0) =>
          diff = av_diff_list[Len(av_diff_list)][2]

\* C9 amended: as above, but the loop guard tests the d appended last only
\* once the running call has appended one; until then, also in a resumed
\* call that was handed a record, it tests the initial value 10.
C9_GuardTestsLastOfCall ==
    /\ RecordAfterMetric
    /\ RecordSteps
    /\ pc = "test" =>
          IF Len(AppendedRows) > 0
          THEN diff = av_diff_list[Len(av_diff_list)][2]
          ELSE diff = Frac(10, 1)

\* a resumed call at the loop test after two iterations that appended
\* different values
C9_Witness ==
    /\ pc = "test"
    /\ Resumed
    /\ nIter = 2
    /\ Len(AppendedRows) = 2
    /\ diff = av_diff_list[Len(av_diff_list)][2]
    /\ AppendedRows[1][2] # AppendedRows[2][2]

\* what np.save('error.npy', ...) leaves for a search area: one error per
\* point, in the order of the area
SavedErrors(area) ==
    [exists |-> TRUE,
     data |-> [k \in 1..Len(area) |-> compute_cell_error(area[k], curl, ef)]]

\* C11: every call of estimate_error replaces error.npy by one error per
\* point of its search area, in the area's order: after the object call the
\* file holds the object-area errors, after the receiver call the
\* receiver-area errors, and from the source call on, so after every
\* completed iteration, the source-area errors of that iteration.
C11_ErrorFileHoldsLastArea ==
    /\ pc = "est_rec" => error_npy = SavedErrors(search_area_obj)
    /\ pc = "est_src" => error_npy = SavedErrors(search_area_receiv)
    /\ pc \in {"rebuild", "remodel"} => error_npy = SavedErrors(search_area_sourc)
    /\ (pc \in {"test", "return", "returned"} /\ nIter >= 1) =>
          error_npy = SavedErrors(search_area_sourc)

\* after the second iteration of a call the file holds source-area errors
\* that differ from the receiver-area errors of the same iteration
C11_Witness ==
    /\ pc = "test"
    /\ nIter = 2
    /\ error_npy.exists
    /\ Len(error_npy.data) >= 2
    /\ error_npy = SavedErrors(search_area_sourc)
    /\ error_npy # SavedErrors(search_area_receiv)
    /\ error_npy # SavedErrors(search_area_obj)

\* the average relative difference is a number at or under 0.01
AtOrUnder001(x) == x.k = "num" /\ 100 * x.n <= x.d

\* C15: a call whose loop is left because the average relative difference is
\* at or under 0.01, exactly 0.01 included and whether or not the cap is
\* reached in the same iteration, returns the converged form, without the
\* three history lists.
C15_ConvergedExitReturnsConvergedForm ==
    (pc = "returned" /\ AtOrUnder001(diff)) =>
        ret.form = "converged" /\ ret.lists = <<>>

\* the steps of one iteration, in the order of the loop body
BodySteps == <<"solve", "metric", "cache", "est_obj", "est_rec", "est_src",
               "rebuild", "remodel", "test">>

\* the active cells of a mesh, from its cell centres
ActiveOn(m) ==
    IF fn = "iterator" THEN surface2ind_topo(m, surface)
    ELSE [k \in 1..Len(CellCenters(m)) |-> TRUE]

\* the number of values a model for the mesh has
ModelLength(m) ==
    IF fn = "iterator"
    THEN Cardinality({k \in 1..Len(ActiveOn(m)) : ActiveOn(m)[k]})
    ELSE Len(CellCenters(m))

\* a step of the body is followed by the next one, or by the exception of an
\* error estimation
OneStepAfterAnother ==
    \A k \in 1..(Len(BodySteps) - 1) :
        (pc = BodySteps[k] /\ pc' # pc) =>
            \/ pc' = BodySteps[k + 1]
            \/ pc' = "raised" /\ pc \in {"est_obj", "est_rec", "est_src"}

\* what a running call changes, and in which step
EachStepItsOwnEffect ==
    pc \in Running =>
        /\ mesh' # mesh => pc = "rebuild"
        /\ (model' # model \/ model_map' # model_map \/ ind_active' # ind_active)
              => pc \in {"setup", "remodel"}
        /\ (ef' # ef \/ curl' # curl) => pc = "solve"
        /\ listVars' # listVars => pc \in {"setup", "est_obj", "est_rec", "est_src"}

\* C16: in every iteration the forward solves come first, then the three
\* error estimations, then the mesh rebuild with its finalize, then the
\* active-cell map and the model, and the next iteration starts only after
\* that; the mesh changes only in the rebuild, map and model only in the
\* setup and after the rebuild, the fields only in the solve; and every
\* forward solve is given a mesh, a map and a model that were built
\* together: those of the most recent rebuild, or of the setup in the first
\* iteration.
C16_StepsInOrder ==
    /\ [][OneStepAfterAnother]_vars
    /\ [][EachStepItsOwnEffect]_vars
    /\ [](pc = "solve" =>
            /\ nSolve = nIter /\ nRebuild = nIter
            /\ ind_active = ActiveOn(mesh)
            /\ model_map.ind = ActiveOn(mesh)
            /\ Len(model) = ModelLength(mesh)
            /\ nIter >= 1 => mesh = RebuiltMesh(fn, refine_at_object_list,
                                                refine_at_receivers_list,
                                                refine_at_sources_list))
    /\ [](pc \in {"metric", "cache", "est_obj", "est_rec", "est_src"} =>
            /\ nSolve = nIter + 1 /\ nRebuild = nIter
            /\ ef.on = CellCenters(mesh) /\ curl.on = CellCenters(mesh))
    /\ [](pc = "remodel" => nSolve = nIter + 1 /\ nRebuild = nIter + 1)

\* the third forward solve of a call, on a mesh with more cells than the
\* mesh the call started with
C16_Witness ==
    /\ pc = "solve"
    /\ nIter = 2
    /\ Len(CellCenters(mesh)) > Len(CellCenters(InitialMesh(fn)))

\* the points the metric is taken over
MetricCells == search_area_obj \o search_area_receiv \o search_area_sourc

\* the baseline through one iteration: the solve finds the previous
\* iteration's field in it and leaves it alone, the metric compares it with
\* the new field, and only the step after the metric replaces it
BaselineSteps ==
    /\ pc = "solve" => ef_old' = ef_old /\ (nIter >= 1 => ef_old = ef)
    /\ pc = "metric" =>
          /\ ef_old' = ef_old /\ ef' = ef
          /\ MetricDue(diff_list, i) =>
                diff' = Average([k \in 1..Len(MetricCells) |->
                                    RelativeDifference(ef_old, ef, MetricCells[k])])
    /\ pc = "cache" => ef_old' = ef
    /\ (pc \in Running /\ ef_old' # ef_old) => pc \in {"setup", "cache"}

\* C17: when an iteration computes the convergence metric, the previous
\* field it compares with is the one the iteration before it produced in the
\* same call, or the caller's Ex, Ey, Ez in the first iteration of a resumed
\* call; the baseline is replaced by the current field only after the metric,
\* so the metric never compares a field with itself.
C17_BaselineIsPreviousField ==
    /\ [][BaselineSteps]_vars
    /\ []((pc \in {"test", "solve", "metric"} /\ nIter = 0 /\ ~StartsFresh(diff_list))
             => ef_old = Ex)
    /\ []((pc = "metric" /\ MetricDue(diff_list, i)) => ef_old.bound /\ ef.bound)

\* the metric of the second iteration of a resumed call, between two fields
\* that differ, neither of them the caller's
C17_Witness ==
    /\ pc = "metric"
    /\ Resumed
    /\ nIter = 1
    /\ ef_old # Ex
    /\ ef_old.e # ef.e

\* the differences the running call has appended to the record
AppendedDifferences == [k \in 1..Len(AppendedRows) |-> AppendedRows[k][2]]

\* the loop as its control alone sees it: n iterations done, d the last
\* difference, D the differences still to come; a fresh call takes no
\* difference in its first iteration. n = -1: the loop asks for a difference
\* D does not have.
RECURSIVE LoopRun(_, _, _, _, _)
LoopRun(fresh, budget, D, n, d) ==
    IF ~(Above001(d) /\ n < budget) THEN [n |-> n, rest |-> D, diff |-> d]
    ELSE IF fresh /\ n = 0 THEN LoopRun(fresh, budget, D, 1, d)
    ELSE IF Len(D) = 0 THEN [n |-> 0 - 1, rest |-> D, diff |-> d]
    ELSE LoopRun(fresh, budget, Tail(D), n + 1, Head(D))

\* what lim_iterations, the resume inputs and the differences alone predict
Predicted == LoopRun(~Resumed, lim_arg, AppendedDifferences, 0, Frac(10, 1))

\* the index the record of the running call continues from
RecordStart == IF Resumed THEN SuppliedIndex ELSE 1

\* C18: iterator and iteratornonobject have the same control behaviour: the
\* number of iterations, the entries appended to the convergence record, the
\* lengths of the three history lists and the form returned are what
\* lim_iterations, the resume inputs and the sequence of average relative
\* differences determine, whichever of the two functions runs.
C18_SameControl ==
    /\ pc = "returned" =>
          /\ Predicted.n = nIter /\ Predicted.rest = <<>>
          /\ \A k \in 1..Len(AppendedRows) : AppendedRows[k][1] = RecordStart + k
          /\ Len(refine_at_object_list) = Len(SuppliedObject) + Predicted.n
          /\ Len(refine_at_receivers_list) = Len(SuppliedReceivers) + Predicted.n
          /\ Len(refine_at_sources_list) = Len(SuppliedSources) + Predicted.n
          /\ ret.form = IF Below001(Predicted.diff) THEN "converged" ELSE "exhausted"
          /\ ret.lists = <<>> <=> ret.form = "converged"
    /\ pc = "raised" =>
          \/ raised = "IndexError" /\ diff_list.ndim # 2
          \/ raised = "UnboundLocalError" /\ diff_list.ndim = 2 /\ Predicted.n = 0

\* a resumed call of iteratornonobject returns after two iterations of its
\* own
C18_Witness ==
    /\ fn = "iteratornonobject"
    /\ pc = "returned"
    /\ Resumed
    /\ nIter = 2
    /\ Len(AppendedRows) = 2

\* the mesh of the last rebuild, and the mesh that rebuild replaced
LastRebuilt ==
    RebuiltMesh(fn, refine_at_object_list, refine_at_receivers_list,
                refine_at_sources_list)

MeshBeforeLastRebuild ==
    RebuiltMesh(fn, EntriesBefore(refine_at_object_list),
                EntriesBefore(refine_at_receivers_list),
                EntriesBefore(refine_at_sources_list))

\* every solve comes before the rebuild with the same number
SolveThenRebuild ==
    /\ pc = "solve" => nSolve = nRebuild /\ nSolve' = nSolve + 1 /\ mesh' = mesh
    /\ pc = "rebuild" => nRebuild + 1 = nSolve /\ nRebuild' = nSolve
    /\ pc \in {"remodel", "test", "return"} => nSolve' = nSolve /\ mesh' = mesh

\* C19: a call that returns after at least one iteration returns the mesh
\* rebuilt at the end of its last iteration (from all entries of the three
\* history lists, the last iteration's included) and the field computed on
\* the mesh that rebuild replaced; no forward solve has run on the returned
\* mesh: the last solve came before the last rebuild. The same holds when
\* the loop ends by convergence.
C19_ReturnedMeshNotSolved ==
    /\ [][SolveThenRebuild]_vars
    /\ []((pc = "returned" /\ nIter >= 1) =>
             /\ ret.mesh = LastRebuilt
             /\ ret.ef.on = CellCenters(MeshBeforeLastRebuild)
             /\ ret.ef = ef
             /\ nSolve = nIter /\ nRebuild = nIter
             /\ Len(refine_at_object_list) = Len(SuppliedObject) + nIter
             /\ Len(refine_at_receivers_list) = Len(SuppliedReceivers) + nIter
             /\ Len(refine_at_sources_list) = Len(SuppliedSources) + nIter)

\* a call that converged in its second or a later iteration returns the mesh
\* rebuilt after that iteration, which has received more refinement requests
\* than the mesh its field was computed on
C19_Witness ==
    /\ pc = "returned"
    /\ ret.form = "converged"
    /\ nIter >= 2
    /\ ret.mesh = LastRebuilt
    /\ ret.mesh # MeshBeforeLastRebuild
    /\ ret.ef.on = CellCenters(MeshBeforeLastRebuild)

\* the box the object indicator in use was computed from: the caller's
\* rotation before the first rebuild of a call, the default one after it
BoxInUse ==
    IF nIter = 0 THEN RotatedBox(coordinates, axis, degrees_rad)
    ELSE RotatedBox(coordinates, DefaultAxis, DefaultRotation)

\* the active cells of the mesh whose centre lies in a box
CellsInBox(b) ==
    LET act == Masked(CellCenters(mesh), ind_active)
    IN  [k \in 1..Len(act) |->
            /\ Abs(PX(act[k]) - b.cx) <= b.hx
            /\ Abs(0 - b.cy) <= b.hy
            /\ Abs(PZ(act[k]) - b.cz) <= b.hz]

\* C20: in iterator with type_object = 'block' the object indicator of the
\* setup is computed from the caller's axis and degrees_rad, the indicator
\* after every rebuild from the coordinates alone (default axis and
\* rotation); the model follows the indicator in use, so the model of the
\* second and later solves of a call and the model a resumed call builds in
\* its setup for the same mesh come from different boxes when the rotation
\* is not the default.
C20_IndicatorGeometry ==
    (/\ fn = "iterator"
     /\ type_object = "block"
     /\ pc \in {"test", "solve", "metric", "cache", "est_obj", "est_rec", "est_src",
                "rebuild", "return", "returned"})
    => /\ ind_object = CellsInBox(BoxInUse)
       /\ Len(model) = Len(ind_object)
       /\ \A k \in 1..Len(model) :
             model[k] = IF CellsInBox(BoxInUse)[k] THEN par_object ELSE par_background

\* a resumed call with a rotated block has built, in its setup, another model
\* than the call before it built for the same mesh after its last rebuild
C20_Witness ==
    /\ fn = "iterator"
    /\ type_object = "block"
    /\ degrees_rad # DefaultRotation
    /\ Resumed
    /\ pc = "solve"
    /\ nIter = 0
    /\ ind_object = CellsInBox(RotatedBox(coordinates, axis, degrees_rad))
    /\ ind_object # CellsInBox(RotatedBox(coordinates, DefaultAxis, DefaultRotation))

\* the running call was handed the record of the call before it, and that
\* record is empty
ResumedOnEmptyRecord == Len(chain) >= 2 /\ ~rerun /\ Len(diff_list.rows) = 0

\* C21: a fresh call with lim_iterations = 1 executes exactly one iteration
\* and returns the budget-exhausted form with an empty convergence record;
\* a call that is handed that record as diff_list cannot resume: the start
\* mode test reads diff_list[0, 0] of the empty record and raises before any
\* iteration, solve or rebuild.
C21_OneIterationCannotResume ==
    /\ (pc = "returned" /\ ~Resumed /\ lim_arg = 1) =>
          /\ nIter = 1 /\ nSolve = 1 /\ nRebuild = 1
          /\ ret.form = "exhausted"
          /\ ret.rec = [ndim |-> 1, rows |-> <<>>]
          /\ \A k \in 1..3 : Len(ret.lists[k]) = 1
    /\ (ResumedOnEmptyRecord /\ pc # "setup") =>
          /\ pc = "raised"
          /\ raised = "IndexError"
          /\ nIter = 0 /\ nSolve = 0 /\ nRebuild = 0
          /\ av_diff_list = <<>>

\* the second call of a chain whose first call had lim_iterations = 1 has
\* raised on the record it was handed
C21_Witness ==
    /\ pc = "raised"
    /\ raised = "IndexError"
    /\ Len(chain) = 2
    /\ chain[1] = 1
    /\ diff_list = ret.rec
    /\ ret.form = "exhausted"

\* the running call has come to its loop and left it without an iteration
LeftLoopUnentered ==
    pc \in {"return", "returned", "raised"} /\ raised # "IndexError" /\ nIter = 0

\* C22: a call whose loop body executes zero times (lim_iterations = 0,
\* fresh or resumed) returns no result: the return statement reads the field
\* interpolators, which only the loop body assigns, so the call ends in an
\* unbound-variable error, after the setup and without a forward solve or a
\* mesh rebuild; a call with a positive lim_iterations enters its loop.
C22_NoIterationNoResult ==
    /\ lim_arg = 0 => pc # "returned"
    /\ LeftLoopUnentered =>
          /\ lim_arg = 0
          /\ ~ef.bound
          /\ nSolve = 0 /\ nRebuild = 0
          /\ Len(model) = ModelLength(mesh)
          /\ model_map.ind = ActiveOn(mesh)
          /\ pc = "raised" => raised = "UnboundLocalError"
    /\ (pc = "raised" /\ raised = "UnboundLocalError") => lim_arg = 0 /\ nIter = 0

\* a resumed call with lim_iterations = 0 has ended in the unbound-variable
\* error
C22_Witness ==
    /\ pc = "raised"
    /\ raised = "UnboundLocalError"
    /\ Resumed
    /\ lim_arg = 0
    /\ Len(av_diff_list) >= 1

(***************************************************************************)
(* Properties of estimate_error (specification SpecEstimate).              *)
(***************************************************************************)
\* the error of a point of the search area handed to estimate_error
ErrorOfPoint(pt) ==
    LET k == CHOOSE j \in 1..Len(ee.search_area) : ee.search_area[j] = pt
    IN  ee.cell_errors[k]

\* the selection is made of distinct points of the search area whose errors
\* are at least the error of every point left out
SelectsLargest ==
    /\ Range(ee.cells_to_refine) \subseteq Range(ee.search_area)
    /\ Cardinality(Range(ee.cells_to_refine)) = Len(ee.cells_to_refine)
    /\ \A a \in Range(ee.cells_to_refine) :
          \A b \in Range(ee.search_area) \ Range(ee.cells_to_refine) :
              ErrorOfPoint(a) >= ErrorOfPoint(b)

\* C3: for every search area of N points and every refine_percentage p,
\* estimate_error returns exactly ceil(p * N) points of the search area, each
\* with an error at least that of every point it does not return (p = 0 and
\* p = 1 included).
C3_ReturnsCeilLargest ==
    ee.pc = "returned" =>
        /\ Len(ee.cells_to_refine) =
               CeilMul(ee.refine_percentage[1], ee.refine_percentage[2],
                       Len(ee.search_area))
        /\ SelectsLargest

(***************************************************************************)
(* Properties of the split into blocks (specification SpecSplit).          *)
(***************************************************************************)
\* C10: the x, y and z blocks cut by the face (edge) counts have exactly
\* those lengths and, concatenated in that order, are the whole array again:
\* they are contiguous, do not overlap and leave nothing out.
C10_BlocksPartition ==
    sl.pc = "split" =>
        /\ Len(sl.x) = sl.n_x
        /\ Len(sl.y) = sl.n_y
        /\ Len(sl.z) = sl.n_z
        /\ sl.x \o sl.y \o sl.z = sl.solution

\* a split array with all three blocks present and not constant
C10_Witness ==
    /\ sl.pc = "split"
    /\ sl.n_x > 0 /\ sl.n_y > 1 /\ sl.n_z > 0
    /\ sl.kind = "edges"
    /\ sl.y[1] # sl.y[2]
    /\ sl.x[1] # sl.z[1]

(***************************************************************************)
(* Properties of compute_cell_error (specification SpecCellError).         *)
(***************************************************************************)
\* C12 as stated: for E = (a*y, b*z, c*x) and curl interpolators that return
\* (-b, c, -a), compute_cell_error is zero at every point.
C12_ZeroAgainstStatedCurl ==
    (ce.pc = "returned" /\ ce.curl_field = <<0 - ce.b, ce.c, 0 - ce.a>>) =>
        ce.error_sq = 0

\* C12 amended: for E = (a*y, b*z, c*x) the curl is (-b, -c, -a), and against
\* curl interpolators that return it compute_cell_error is zero at every
\* point.
C12_ZeroAgainstCurl ==
    (ce.pc = "returned" /\ ce.curl_field = <<0 - ce.b, 0 - ce.c, 0 - ce.a>>) =>
        ce.error_sq = 0

\* an error of zero away from the origin for a field with no zero coefficient
C12_Witness ==
    /\ ce.pc = "returned"
    /\ ce.a # 0 /\ ce.b # 0 /\ ce.c # 0 /\ ce.a # ce.b
    /\ ce.cell # <<0, 0, 0>>
    /\ ce.curl_field = <<0 - ce.b, 0 - ce.c, 0 - ce.a>>
    /\ ce.error_sq = 0

(***************************************************************************)
(* Properties of the seafloor extraction (specification SpecSeafloor).     *)
(***************************************************************************)
\* the elevations (lower nodes) of the cells of column c that hold seawater
SeawaterElevations(c) ==
    {sfl.nodes_z[k] : k \in {q \in 1..Len(sfl.property_x[c]) :
                                100 * sfl.property_x[c][q] < 3300}}

C14_FetchedOnlyIfAbsent ==
    /\ (ft.pc \in {"done", "failed"}) => (ft.requested <=> ~ft.at_start.exists)
    /\ (ft.run >= 1 /\ ft.at_start.exists) =>
          /\ ~ft.requested
          /\ ft.run \notin ft.request_runs
          /\ ft.file = ft.at_start
    /\ ft.fetched_in # 0 => \A r \in ft.request_runs : r <= ft.fetched_in

\* a third run that ends without a request, after the first run fetched
C14_Witness ==
    /\ ft.pc = "done"
    /\ ft.run = 3
    /\ ft.fetched_in = 1
    /\ ft.request_runs = {1}
    /\ ~ft.requested

\* C23: GemPy-II.h5 is created, empty, before the request is issued and is
\* not removed when the fetch fails: a request that raises leaves the empty
\* file, an answer that is not the model is written as the file; the next
\* run finds the file, makes no request and fails loading the file as it is.
C23_FailedFetchLeavesFile ==
    /\ ft.pc = "get" =>
          ft.file = [exists |-> TRUE, data |-> "empty"] /\ ~ft.requested
    /\ (ft.pc = "failed" /\ ft.requested) =>
          /\ ft.file.exists
          /\ ft.file.data \in {"empty", "other"}
    /\ ft.request_runs # {} => (ft.file.exists \/ ft.pc \in {"isfile", "open"})
    /\ (ft.run >= 2 /\ (ft.run - 1) \in ft.request_runs) =>
          /\ ft.at_start.exists
          /\ ~ft.requested
          /\ ft.file = ft.at_start
          /\ ft.pc \in {"isfile", "load", "done", "failed"}
          /\ ft.at_start.data # "model" => ft.pc # "done"

\* the run after a run whose request raised has failed on the empty file
\* without a request
C23_Witness ==
    /\ ft.run = 2
    /\ ft.request_runs = {1}
    /\ ft.pc = "failed"
    /\ ~ft.requested
    /\ ft.file = [exists |-> TRUE, data |-> "empty"]

====
